---- MODULE Spec2Model ----
(***************************************************************************)
(* Model of openMVG's main_ComputeMatches (putative matching driver).      *)
(*                                                                         *)
(* main() is modelled step by step (variable pc).  The collaborators that  *)
(* main() calls but whose bodies live in the openMVG library               *)
(* (Regions_Provider, Regions_Provider_Cache, loadPairs, Matcher::Match,   *)
(* Load/Save of PairWiseMatches, indexedGraph) are modelled from their     *)
(* documented contracts.                                                   *)
(***************************************************************************)
EXTENDS Integers, Sequences, FiniteSets, TLC

\* ------------------------------------------------------------- bounds
MaxCache == 2
MaxCorr == 1
MaxMissing == 1
MaxFetches == 5
NumWorkers == 2
MaxFlights == 3

\* ------------------------------------------------------------- inputs
Methods ==
  {"AUTO", "BRUTEFORCEL2", "BRUTEFORCEHAMMING", "HNSWL2", "ANNL2",
   "CASCADEHASHINGL2", "FASTCASCADEHASHINGL2", "BOGUS"}

RegionTypes == {"null", "scalar", "binary"}

Scenes == {{0, 1, 2}, {0, 2}}

EmptyMap == [k \in {} |-> 0]

PriorMaps ==
  {EmptyMap,
   (<<0, 1>> :> 1) @@ (<<1, 2>> :> 0),
   (<<0, 5>> :> 1)}

NoFile == [kind |-> "none", m |-> EmptyMap]

PriorFiles ==
  {NoFile, [kind |-> "corrupt", m |-> EmptyMap]}
    \cup {[kind |-> "valid", m |-> pm] : pm \in PriorMaps}

PairLists ==
  {[wellFormed |-> FALSE, list |-> <<>>],
   [wellFormed |-> TRUE, list |-> <<>>],
   [wellFormed |-> TRUE, list |-> <<<<0, 1>>, <<1, 2>>>>],
   [wellFormed |-> TRUE, list |-> <<<<1, 0>>, <<0, 1>>>>],
   [wellFormed |-> TRUE, list |-> <<<<2, 1>>>>],
   [wellFormed |-> TRUE, list |-> <<<<0, 3>>>>],
   [wellFormed |-> TRUE, list |-> <<<<1, 1>>>>]}

NoPairs == [wellFormed |-> TRUE, list |-> <<>>]

AllViews == UNION Scenes

\* view ids a caller may ask for: the known ones and one no scene holds
FetchIds == AllViews \cup {3}

Workers == 1..NumWorkers

Flights == 1..MaxFlights

\* ------------------------------------------------------------- state
VARIABLES
  pc,          \* position of main()
  exit,        \* "none" | "SUCCESS" | "FAILURE"
  err,         \* which fatal branch returned EXIT_FAILURE ("none" if none)
  cfg,         \* command line values
  file,        \* what the output path holds now
  file0,       \* what the output path held when the run started
  views,       \* sfm_data.GetViews() keys
  regionsType, \* regions_type: "none" before Init_region_type_from_file
  descFiles,   \* views whose descriptor file is loadable
  regions_provider, \* the Regions_Provider or Regions_Provider_Cache
  loads,       \* views whose descriptor file has been read
  collectionMatcher, \* allocated matcher kind, or "null"
  pairSrc,     \* the pair list file handed to loadPairs
  pairsLoaded, \* loadPairs has been called
  pairs,       \* Pair_Set pairs
  kernel,      \* outcome of the ratio test per pair when both regions exist
  matchCalls,  \* number of Matcher::Match invocations
  writes,      \* number of Save calls on the output path
  map_PutativesMatches, \* pair key -> number of retained correspondences
  diag,        \* diagnostics stage
  clock,       \* number of fetches issued (cache study)
  lastUse,     \* view -> clock value of its last successful fetch (0: never)
  lastFetch,   \* what the last fetch did
  wpc,         \* worker -> "idle" | "loading" | "waiting" | "have"
  wreq,        \* worker -> view it is fetching
  wflight,     \* worker -> load it started or joined (0: served from cache)
  wgot,        \* worker -> RegionSet instance it observes (0: none)
  inflight,    \* view -> load in progress for it (0: none)
  flightInst,  \* load -> instance it produced (0: not finished)
  issued,      \* load -> number of disk reads issued for it
  resident     \* view -> instance held by the cache (0: not resident)

vars ==
  <<pc, exit, err, cfg, file, file0, views, regionsType, descFiles, regions_provider,
    loads, collectionMatcher, pairSrc, pairsLoaded, pairs, kernel, matchCalls, writes,
    map_PutativesMatches, diag, clock, lastUse, lastFetch, wpc, wreq, wflight, wgot, inflight,
    flightInst, issued, resident>>

obsVars ==
  <<clock, lastUse, lastFetch, wpc, wreq, wflight, wgot, inflight,
    flightInst, issued, resident>>

\* ------------------------------------------------------------- helpers
Canon(p) == IF p[1] <= p[2] THEN p ELSE <<p[2], p[1]>>

SeqRange(s) == {s[i] : i \in 1..Len(s)}

PairLess(p, q) == p[1] < q[1] \/ (p[1] = q[1] /\ p[2] < q[2])

MinPair(S) == CHOOSE p \in S : \A q \in S \ {p} : PairLess(p, q)

RECURSIVE SortedPairs(_)
SortedPairs(S) ==
  IF S = {} THEN <<>> ELSE <<MinPair(S)>> \o SortedPairs(S \ {MinPair(S)})

Front(s) == SubSeq(s, 1, Len(s) - 1)

Without(s, v) == SelectSeq(s, LAMBDA x : x # v)

\* ------------------------------------------------------------- regions_provider
MakeProviderAlwaysAll(ui_max_cache_size) ==
  [mode |-> "all", cap |-> 0, store |-> {}, lru |-> <<>>]

MakeProviderOffByOne(ui_max_cache_size) ==
  IF ui_max_cache_size = 0
    THEN [mode |-> "all", cap |-> 0, store |-> {}, lru |-> <<>>]
    ELSE [mode |-> "cache", cap |-> ui_max_cache_size + 1, store |-> {}, lru |-> <<>>]

MakeProvider(ui_max_cache_size) ==
  IF ui_max_cache_size = 0
    THEN [mode |-> "all", cap |-> 0, store |-> {}, lru |-> <<>>]
    ELSE [mode |-> "cache", cap |-> ui_max_cache_size, store |-> {}, lru |-> <<>>]

\* Regions_Provider::load reads every view's regions; the cached regions_provider
\* only records where they are.
ProviderLoad(p, vs, files) ==
  IF p.mode = "all"
    THEN [ok |-> vs \subseteq files,
          p |-> [p EXCEPT !.store = vs \cap files],
          read |-> vs]
    ELSE [ok |-> TRUE, p |-> p, read |-> {}]

\* fetch(viewId): lookup in the unbounded regions_provider; in the cache a hit is a
\* recency touch, a miss loads the file and evicts the least recently used
\* entry when the cache is full.  lru is most-recent-first.
ProviderGet(p, v, vs, files) ==
  IF p.mode = "all"
    THEN [found |-> v \in p.store, p |-> p, read |-> {}, evicted |-> {}]
  ELSE IF v \in SeqRange(p.lru)
    THEN [found |-> TRUE,
          p |-> [p EXCEPT !.lru = <<v>> \o Without(p.lru, v)],
          read |-> {}, evicted |-> {}]
  ELSE IF v \in vs \cap files
    THEN IF Len(p.lru) >= p.cap
           THEN [found |-> TRUE,
                 p |-> [p EXCEPT !.lru = <<v>> \o Front(p.lru)],
                 read |-> {v}, evicted |-> {p.lru[Len(p.lru)]}]
           ELSE [found |-> TRUE,
                 p |-> [p EXCEPT !.lru = <<v>> \o p.lru],
                 read |-> {v}, evicted |-> {}]
  ELSE [found |-> FALSE, p |-> p, read |-> {}, evicted |-> {}]

\* ------------------------------------------------------------- selector
SelectMatcher(method, type) ==
  IF method = "AUTO"
    THEN IF type = "scalar" THEN "FAST_CASCADE_HASHING_L2"
         ELSE IF type = "binary" THEN "BRUTE_FORCE_HAMMING"
         ELSE "null"
  ELSE IF method = "BRUTEFORCEL2" THEN "BRUTE_FORCE_L2"
  ELSE IF method = "BRUTEFORCEHAMMING" THEN "BRUTE_FORCE_HAMMING"
  ELSE IF method = "HNSWL2" THEN "HNSW_L2"
  ELSE IF method = "ANNL2" THEN "ANN_L2"
  ELSE IF method = "CASCADEHASHINGL2" THEN "CASCADE_HASHING_L2"
  ELSE IF method = "FASTCASCADEHASHINGL2" THEN "FAST_CASCADE_HASHING_L2"
  ELSE "null"

\* ------------------------------------------------------------- pairs
loadPairs(N, src) ==
  LET listed == SeqRange(src.list)
      valid == /\ src.wellFormed
               /\ \A p \in listed : p[1] < N /\ p[2] < N /\ p[1] # p[2]
  IN [ok |-> valid, pairs |-> IF valid THEN {Canon(p) : p \in listed} ELSE {}]

\* ------------------------------------------------------------- matching
RECURSIVE MatchSeq(_, _, _, _, _, _, _)
MatchSeq(todo, p, m, read, vs, files, k) ==
  IF todo = <<>> THEN [p |-> p, out |-> m, read |-> read]
  ELSE LET pr == Head(todo)
           gA == ProviderGet(p, pr[1], vs, files)
           gB == ProviderGet(gA.p, pr[2], vs, files)
           n == IF gA.found /\ gB.found THEN k[pr] ELSE 0
       IN MatchSeq(Tail(todo), gB.p, (pr :> n) @@ m,
                   read \cup gA.read \cup gB.read, vs, files, k)

Match(p, prs, m, vs, files, k) ==
  MatchSeq(SortedPairs(prs), p, m, {}, vs, files, k)

\* ------------------------------------------------------------- store
Load(f) == [ok |-> f.kind = "valid", m |-> IF f.kind = "valid" THEN f.m ELSE EmptyMap]

Save(m, f, ioOk) == IF ioOk THEN [kind |-> "valid", m |-> m] ELSE f

\* ------------------------------------------------------------- main
ReusePreviousInverted(bForce, f) == bForce /\ f.kind # "none"

ReusePrevious(bForce, f) == ~bForce /\ f.kind # "none"

FreshMatchesKeepsPrior(f) == f.m

FreshMatches(f) == EmptyMap

SetViewIdsFromMatches(vs, m) ==
  {v \in vs : \E k \in DOMAIN m : (v = k[1] \/ v = k[2]) /\ m[k] > 0}

SetViewIds(vs, m) == vs

getPairs(m) == {k \in DOMAIN m : m[k] > 0}

ExitFailsOnExportError(svgOk, graphOk) ==
  IF svgOk /\ graphOk THEN "SUCCESS" ELSE "FAILURE"

ExitAfterDiagnostics(svgOk, graphOk) == "SUCCESS"

NoDiag ==
  [svg |-> "no", dot |-> "no", nodes |-> {}, edges |-> {}, built |-> FALSE]

NoFetch == [v |-> 3, found |-> FALSE, hit |-> FALSE, evicted |-> {}, sizeBefore |-> 0]

ObsInit ==
  /\ clock = 0
  /\ lastUse = [v \in FetchIds |-> 0]
  /\ lastFetch = NoFetch
  /\ wpc = [w \in Workers |-> "idle"]
  /\ wreq = [w \in Workers |-> 3]
  /\ wflight = [w \in Workers |-> 0]
  /\ wgot = [w \in Workers |-> 0]
  /\ inflight = [v \in FetchIds |-> 0]
  /\ flightInst = [f \in Flights |-> 0]
  /\ issued = [f \in Flights |-> 0]
  /\ resident = [v \in FetchIds |-> 0]

FailReturnsSuccess(cause) == /\ pc' = "exit" /\ exit' = "SUCCESS" /\ err' = cause

Fail(cause) == /\ pc' = "exit" /\ exit' = "FAILURE" /\ err' = cause

Init ==
  /\ pc = "cmdline"
  /\ exit = "none"
  /\ err = "none"
  /\ cfg \in [pairList : BOOLEAN, out : BOOLEAN, sNearestMatchingMethod : Methods,
              bForce : BOOLEAN, ui_max_cache_size : 0..MaxCache]
  /\ file \in PriorFiles
  /\ file0 = file
  /\ views = {}
  /\ regionsType = "none"
  /\ descFiles = {}
  /\ regions_provider = [mode |-> "none", cap |-> 0, store |-> {}, lru |-> <<>>]
  /\ loads = {}
  /\ collectionMatcher = "null"
  /\ pairSrc = NoPairs
  /\ pairsLoaded = FALSE
  /\ pairs = {}
  /\ kernel = EmptyMap
  /\ matchCalls = 0
  /\ writes = 0
  /\ map_PutativesMatches = EmptyMap
  /\ diag = NoDiag
  /\ ObsInit

\* argc == 1, or cmd.process throws: usage and EXIT_FAILURE
ParseCmdLine ==
  /\ pc = "cmdline"
  /\ \/ Fail("Usage")
     \/ pc' = "args" /\ UNCHANGED <<exit, err>>
  /\ UNCHANGED obsVars
  /\ UNCHANGED <<cfg, file, file0, views, regionsType, descFiles, regions_provider,
                 loads, collectionMatcher, pairSrc, pairsLoaded, pairs, kernel,
                 matchCalls, writes, map_PutativesMatches, diag>>

CheckArgs ==
  /\ pc = "args"
  /\ IF ~cfg.pairList THEN Fail("NoPairList")
     ELSE IF ~cfg.out THEN Fail("NoOutput")
     ELSE pc' = "scene" /\ UNCHANGED <<exit, err>>
  /\ UNCHANGED obsVars
  /\ UNCHANGED <<cfg, file, file0, views, regionsType, descFiles, regions_provider,
                 loads, collectionMatcher, pairSrc, pairsLoaded, pairs, kernel,
                 matchCalls, writes, map_PutativesMatches, diag>>

LoadScene ==
  /\ pc = "scene"
  /\ \/ /\ Fail("Scene")
        /\ UNCHANGED views
     \/ /\ \E vs \in Scenes : views' = vs
        /\ pc' = "describer"
        /\ UNCHANGED <<exit, err>>
  /\ UNCHANGED obsVars
  /\ UNCHANGED <<cfg, file, file0, regionsType, descFiles, regions_provider,
                 loads, collectionMatcher, pairSrc, pairsLoaded, pairs, kernel,
                 matchCalls, writes, map_PutativesMatches, diag>>

InitRegionType ==
  /\ pc = "describer"
  /\ \E t \in RegionTypes :
       /\ regionsType' = t
       /\ IF t = "null" THEN Fail("Describer")
          ELSE pc' = "regions" /\ UNCHANGED <<exit, err>>
  /\ UNCHANGED obsVars
  /\ UNCHANGED <<cfg, file, file0, views, descFiles, regions_provider,
                 loads, collectionMatcher, pairSrc, pairsLoaded, pairs, kernel,
                 matchCalls, writes, map_PutativesMatches, diag>>

LoadRegions ==
  /\ pc = "regions"
  /\ \E missing \in SUBSET views :
       /\ Cardinality(missing) <= MaxMissing
       /\ descFiles' = views \ missing
       /\ LET r == ProviderLoad(MakeProvider(cfg.ui_max_cache_size), views, views \ missing)
          IN /\ regions_provider' = r.p
             /\ loads' = r.read
             /\ IF ~r.ok THEN Fail("Regions")
                ELSE pc' = "putative" /\ UNCHANGED <<exit, err>>
  /\ UNCHANGED obsVars
  /\ UNCHANGED <<cfg, file, file0, views, regionsType,
                 collectionMatcher, pairSrc, pairsLoaded, pairs, kernel,
                 matchCalls, writes, map_PutativesMatches, diag>>

ReloadMatches ==
  /\ pc = "putative"
  /\ ReusePrevious(cfg.bForce, file)
  /\ LET r == Load(file)
     IN IF ~r.ok THEN Fail("LoadMatches") /\ UNCHANGED map_PutativesMatches
        ELSE map_PutativesMatches' = r.m /\ pc' = "svg" /\ UNCHANGED <<exit, err>>
  /\ UNCHANGED obsVars
  /\ UNCHANGED <<cfg, file, file0, views, regionsType, descFiles, regions_provider,
                 loads, collectionMatcher, pairSrc, pairsLoaded, pairs, kernel,
                 matchCalls, writes, diag>>

AllocateMatcher ==
  /\ pc = "putative"
  /\ ~ReusePrevious(cfg.bForce, file)
  /\ collectionMatcher' = SelectMatcher(cfg.sNearestMatchingMethod, regionsType)
  /\ map_PutativesMatches' = FreshMatches(file)
  /\ IF collectionMatcher' = "null" THEN Fail("Method")
     ELSE pc' = "pairs" /\ UNCHANGED <<exit, err>>
  /\ UNCHANGED obsVars
  /\ UNCHANGED <<cfg, file, file0, views, regionsType, descFiles, regions_provider,
                 loads, pairSrc, pairsLoaded, pairs, kernel,
                 matchCalls, writes, diag>>

LoadPairs ==
  /\ pc = "pairs"
  /\ \E src \in PairLists :
       /\ pairSrc' = src
       /\ pairsLoaded' = TRUE
       /\ LET r == loadPairs(Cardinality(views), src)
          IN /\ pairs' = r.pairs
             /\ IF ~r.ok THEN Fail("Pairs")
                ELSE pc' = "match" /\ UNCHANGED <<exit, err>>
  /\ UNCHANGED obsVars
  /\ UNCHANGED <<cfg, file, file0, views, regionsType, descFiles, regions_provider,
                 loads, collectionMatcher, kernel, matchCalls, writes, map_PutativesMatches, diag>>

DoMatch ==
  /\ pc = "match"
  /\ \E k \in [pairs -> 0..MaxCorr] :
       /\ kernel' = k
       /\ LET r == Match(regions_provider, pairs, map_PutativesMatches, views, descFiles, k)
          IN /\ regions_provider' = r.p
             /\ map_PutativesMatches' = r.out
             /\ loads' = loads \cup r.read
  /\ matchCalls' = matchCalls + 1
  /\ pc' = "save"
  /\ UNCHANGED obsVars
  /\ UNCHANGED <<exit, err, cfg, file, file0, views, regionsType, descFiles,
                 collectionMatcher, pairSrc, pairsLoaded, pairs, writes, diag>>

SaveMatches ==
  /\ pc = "save"
  /\ \E ioOk \in BOOLEAN :
       /\ file' = Save(map_PutativesMatches, file, ioOk)
       /\ IF ~ioOk THEN Fail("Save")
          ELSE pc' = "svg" /\ UNCHANGED <<exit, err>>
  /\ writes' = writes + 1
  /\ UNCHANGED obsVars
  /\ UNCHANGED <<cfg, file0, views, regionsType, descFiles, regions_provider,
                 loads, collectionMatcher, pairSrc, pairsLoaded, pairs, kernel,
                 matchCalls, map_PutativesMatches, diag>>

ExportAdjacencyMatrix ==
  /\ pc = "svg"
  /\ \E ok \in BOOLEAN :
       diag' = [diag EXCEPT !.svg = IF ok THEN "written" ELSE "failed"]
  /\ pc' = "graph"
  /\ UNCHANGED obsVars
  /\ UNCHANGED <<exit, err, cfg, file, file0, views, regionsType, descFiles,
                 regions_provider, loads, collectionMatcher, pairSrc, pairsLoaded, pairs,
                 kernel, matchCalls, writes, map_PutativesMatches>>

ExportGraph ==
  /\ pc = "graph"
  /\ \E ok \in BOOLEAN :
       /\ diag' = [diag EXCEPT !.dot = IF ok THEN "written" ELSE "failed",
                               !.nodes = SetViewIds(views, map_PutativesMatches),
                               !.edges = getPairs(map_PutativesMatches),
                               !.built = TRUE]
       /\ exit' = ExitAfterDiagnostics(diag.svg = "written", ok)
  /\ pc' = "exit"
  /\ UNCHANGED obsVars
  /\ UNCHANGED <<err, cfg, file, file0, views, regionsType, descFiles,
                 regions_provider, loads, collectionMatcher, pairSrc, pairsLoaded, pairs,
                 kernel, matchCalls, writes, map_PutativesMatches>>

Next ==
  \/ ParseCmdLine
  \/ CheckArgs
  \/ LoadScene
  \/ InitRegionType
  \/ LoadRegions
  \/ ReloadMatches
  \/ AllocateMatcher
  \/ LoadPairs
  \/ DoMatch
  \/ SaveMatches
  \/ ExportAdjacencyMatrix
  \/ ExportGraph

Spec == Init /\ [][Next]_vars

\* =============================================================== claims
Diagnosing == pc \in {"svg", "graph"} \/ diag.built

Listed == {Canon(p) : p \in SeqRange(pairSrc.list)}

Missing == views \ descFiles

NumericMethods ==
  {"BRUTEFORCEL2", "HNSWL2", "ANNL2", "CASCADEHASHINGL2", "FASTCASCADEHASHINGL2"}

InvalidSelector(method, type) ==
  \/ method \notin NumericMethods \cup {"AUTO", "BRUTEFORCEHAMMING"}
  \/ method \in NumericMethods /\ type = "binary"
  \/ method = "BRUTEFORCEHAMMING" /\ type = "scalar"

\* what Match stores for a pair when every view's descriptor file is present
IfAllPresent(p) == IF p[1] \in views /\ p[2] \in views THEN kernel[p] ELSE 0

\* C1: a run started with force=false on a loadable match file never loads
\* the pair list, never calls Match, never writes the match file (which stays
\* as it was), and hands the loaded content to the diagnostics stage.
IdempotentResume ==
  (~cfg.bForce /\ file0.kind = "valid") =>
    /\ ~pairsLoaded
    /\ matchCalls = 0
    /\ writes = 0
    /\ file = file0
    /\ Diagnosing => map_PutativesMatches = file0.m

IdempotentResumeWitness ==
  /\ pc = "exit" /\ exit = "SUCCESS"
  /\ ~cfg.bForce /\ file0.kind = "valid"
  /\ DOMAIN map_PutativesMatches # {} /\ map_PutativesMatches = file0.m

\* C2 (as stated): a run whose selector is unrecognized or incompatible with
\* the descriptor type ends in failure with no regions loaded, no Match call
\* and no write of the match file, on every path.
SelectorRejectedBeforeWork ==
  (pc = "exit" /\ InvalidSelector(cfg.sNearestMatchingMethod, regionsType)) =>
    /\ exit = "FAILURE"
    /\ loads = {}
    /\ matchCalls = 0
    /\ writes = 0

FatalLeavesNoCorruptFile ==
  err # "none" => (exit = "FAILURE" /\ file.kind \in {"none", "valid"})

\* C4 (amended): after any fatal error the exit status is failure and the
\* output path holds exactly what it held before the run (no file, a complete
\* result set, or the prior file that could not be loaded).
FatalLeavesFileUntouched ==
  err # "none" => (exit = "FAILURE" /\ file = file0)

FatalLeavesFileUntouchedWitness ==
  /\ err = "Save" /\ exit = "FAILURE" /\ writes = 1
  /\ file0.kind = "valid" /\ DOMAIN map_PutativesMatches # {} /\ map_PutativesMatches # file0.m

\* C5: after a successful computing run the keys of the persisted matches
\* are exactly the canonical keys of the listed pairs, empty lists included.
KeysAreListedPairs ==
  (exit = "SUCCESS" /\ matchCalls > 0) =>
    /\ file.kind = "valid"
    /\ DOMAIN file.m = Listed
    /\ \A k \in DOMAIN file.m : k[1] < k[2]

KeysAreListedPairsWitness ==
  /\ exit = "SUCCESS" /\ matchCalls > 0
  /\ pairSrc.list = <<<<1, 0>>, <<0, 1>>>>
  /\ DOMAIN file.m = {<<0, 1>>} /\ file.m[<<0, 1>>] = 0
  /\ file0.kind = "valid" /\ DOMAIN file0.m # {}

\* C6: the exported graph has exactly one node per view of the scene and as
\* many edges as there are keys with a nonempty list; empty keys give no edge.
GraphComplete ==
  diag.built =>
    /\ diag.nodes = views
    /\ Cardinality(diag.edges) = Cardinality({k \in DOMAIN map_PutativesMatches : map_PutativesMatches[k] # 0})
    /\ \A k \in DOMAIN map_PutativesMatches : map_PutativesMatches[k] = 0 => k \notin diag.edges

GraphCompleteWitness ==
  /\ diag.built /\ views = {0, 1, 2}
  /\ diag.edges = {<<0, 1>>}
  /\ <<1, 2>> \in DOMAIN map_PutativesMatches /\ map_PutativesMatches[<<1, 2>>] = 0

\* C9 (as stated): every pair key handed to the diagnostics stage references
\* two distinct views of the scene.
KeysReferenceSceneViews ==
  Diagnosing =>
    \A k \in DOMAIN map_PutativesMatches : k[1] # k[2] /\ k[1] \in views /\ k[2] \in views

Resident(p) == IF p.mode = "all" THEN p.store ELSE SeqRange(p.lru)

CacheInit ==
  /\ pc = "fetching"
  /\ exit = "none"
  /\ err = "none"
  /\ cfg \in [pairList : {TRUE}, out : {TRUE}, sNearestMatchingMethod : {"AUTO"},
              bForce : {FALSE}, ui_max_cache_size : 0..MaxCache]
  /\ file = NoFile
  /\ file0 = NoFile
  /\ views \in Scenes
  /\ regionsType = "scalar"
  /\ \E missing \in SUBSET views :
       /\ Cardinality(missing) <= MaxMissing
       /\ descFiles = views \ missing
  /\ LET r == ProviderLoad(MakeProvider(cfg.ui_max_cache_size), views, descFiles)
     IN r.ok /\ regions_provider = r.p /\ loads = r.read
  /\ collectionMatcher = "null"
  /\ pairSrc = NoPairs
  /\ pairsLoaded = FALSE
  /\ pairs = {}
  /\ kernel = EmptyMap
  /\ matchCalls = 0
  /\ writes = 0
  /\ map_PutativesMatches = EmptyMap
  /\ diag = NoDiag
  /\ ObsInit

CacheFetch ==
  /\ clock < MaxFetches
  /\ \E v \in FetchIds :
       LET r == ProviderGet(regions_provider, v, views, descFiles)
       IN /\ regions_provider' = r.p
          /\ loads' = loads \cup r.read
          /\ clock' = clock + 1
          /\ lastUse' = IF r.found THEN [lastUse EXCEPT ![v] = clock + 1]
                        ELSE lastUse
          /\ lastFetch' = [v |-> v, found |-> r.found,
                           hit |-> v \in Resident(regions_provider),
                           evicted |-> r.evicted,
                           sizeBefore |-> Cardinality(Resident(regions_provider))]
  /\ UNCHANGED <<pc, exit, err, cfg, file, file0, views, regionsType,
                 descFiles, collectionMatcher, pairSrc, pairsLoaded, pairs, kernel,
                 matchCalls, writes, map_PutativesMatches, diag>>
  /\ UNCHANGED <<wpc, wreq, wflight, wgot, inflight, flightInst, issued,
                 resident>>

CacheNext == CacheFetch

SpecCache == CacheInit /\ [][CacheNext]_vars

\* C7: with capacity C > 0 the cache never holds more than C region sets, an
\* eviction happens only on a miss into a full cache and removes the least
\* recently used entry, and a fetch of a resident view evicts nothing; with
\* capacity 0 nothing is ever evicted.
CacheBound ==
  /\ cfg.ui_max_cache_size > 0 =>
       /\ regions_provider.mode = "cache"
       /\ Len(regions_provider.lru) <= cfg.ui_max_cache_size
       /\ Cardinality(Resident(regions_provider)) = Len(regions_provider.lru)
       /\ lastFetch.hit => lastFetch.evicted = {}
       /\ Cardinality(lastFetch.evicted) <= 1
       /\ \A e \in lastFetch.evicted :
            /\ e \notin Resident(regions_provider)
            /\ lastUse[e] > 0
            /\ lastFetch.sizeBefore = cfg.ui_max_cache_size
            /\ \A r \in Resident(regions_provider) : lastUse[e] < lastUse[r]
       /\ lastFetch.found => lastFetch.v \in Resident(regions_provider)
  /\ cfg.ui_max_cache_size = 0 =>
       /\ regions_provider.mode = "all"
       /\ lastFetch.evicted = {}
       /\ Resident(regions_provider) = views

CacheBoundWitness ==
  /\ cfg.ui_max_cache_size = 2 /\ lastFetch.evicted = {0} /\ lastFetch.v = 2
  /\ lastUse[1] > lastUse[0] /\ Resident(regions_provider) = {1, 2}

\* ====================================================== worker study
\* Matching workers fetching through the bounded cache.  Cache state is
\* changed one step at a time (the steps are the critical sections); the
\* disk read of a load lies between WBegin and WFinish.
NextFlight == 1 + Cardinality({f \in Flights : issued[f] > 0})

MissNoJoin(v, res, infl) == IF res[v] # 0 THEN "hit" ELSE "load"

\* what a fetch of v does on entry: served from the cache, joined to the
\* load in progress for v, or starting the load itself
OnFetch(v, res, infl) ==
  IF res[v] # 0 THEN "hit"
  ELSE IF infl[v] # 0 THEN "join"
  ELSE "load"

WorkersInit ==
  /\ pc = "matching"
  /\ exit = "none"
  /\ err = "none"
  /\ cfg \in [pairList : {TRUE}, out : {TRUE}, sNearestMatchingMethod : {"AUTO"},
              bForce : {FALSE}, ui_max_cache_size : 1..MaxCache]
  /\ file = NoFile
  /\ file0 = NoFile
  /\ views \in Scenes
  /\ regionsType = "scalar"
  /\ descFiles = views
  /\ LET r == ProviderLoad(MakeProvider(cfg.ui_max_cache_size), views, descFiles)
     IN r.ok /\ regions_provider = r.p /\ loads = r.read
  /\ collectionMatcher = "FAST_CASCADE_HASHING_L2"
  /\ pairSrc = NoPairs
  /\ pairsLoaded = TRUE
  /\ pairs = {}
  /\ kernel = EmptyMap
  /\ matchCalls = 1
  /\ writes = 0
  /\ map_PutativesMatches = EmptyMap
  /\ diag = NoDiag
  /\ ObsInit

WBegin(w) ==
  /\ wpc[w] = "idle"
  /\ \E v \in views :
       LET todo == OnFetch(v, resident, inflight)
       IN /\ wreq' = [wreq EXCEPT ![w] = v]
          /\ IF todo = "hit"
               THEN /\ wpc' = [wpc EXCEPT ![w] = "have"]
                    /\ wgot' = [wgot EXCEPT ![w] = resident[v]]
                    /\ wflight' = [wflight EXCEPT ![w] = 0]
                    /\ regions_provider' = [regions_provider EXCEPT
                                      !.lru = <<v>> \o Without(regions_provider.lru, v)]
                    /\ UNCHANGED <<inflight, issued>>
             ELSE IF todo = "join"
               THEN /\ wpc' = [wpc EXCEPT ![w] = "waiting"]
                    /\ wflight' = [wflight EXCEPT ![w] = inflight[v]]
                    /\ UNCHANGED <<wgot, regions_provider, inflight, issued>>
             ELSE /\ NextFlight <= MaxFlights
                  /\ wpc' = [wpc EXCEPT ![w] = "loading"]
                  /\ wflight' = [wflight EXCEPT ![w] = NextFlight]
                  /\ inflight' = [inflight EXCEPT ![v] = NextFlight]
                  /\ issued' = [issued EXCEPT ![NextFlight] = @ + 1]
                  /\ UNCHANGED <<wgot, regions_provider>>
  /\ UNCHANGED <<pc, exit, err, cfg, file, file0, views, regionsType,
                 descFiles, loads, collectionMatcher, pairSrc, pairsLoaded, pairs,
                 kernel, matchCalls, writes, map_PutativesMatches, diag>>
  /\ UNCHANGED <<clock, lastUse, lastFetch, flightInst, resident>>

WFinish(w) ==
  /\ wpc[w] = "loading"
  /\ LET v == wreq[w]
         f == wflight[w]
         kept == Without(regions_provider.lru, v)
         full == Len(kept) >= regions_provider.cap
         out == IF full THEN {kept[Len(kept)]} ELSE {}
     IN /\ regions_provider' = [regions_provider EXCEPT
                          !.lru = <<v>> \o (IF full THEN Front(kept) ELSE kept)]
        /\ resident' = [x \in FetchIds |->
                          IF x = v THEN f
                          ELSE IF x \in out THEN 0
                          ELSE resident[x]]
        /\ flightInst' = [flightInst EXCEPT ![f] = f]
        /\ inflight' = [inflight EXCEPT ![v] = IF @ = f THEN 0 ELSE @]
        /\ wgot' = [wgot EXCEPT ![w] = f]
        /\ wpc' = [wpc EXCEPT ![w] = "have"]
        /\ loads' = loads \cup {v}
  /\ UNCHANGED <<pc, exit, err, cfg, file, file0, views, regionsType,
                 descFiles, collectionMatcher, pairSrc, pairsLoaded, pairs,
                 kernel, matchCalls, writes, map_PutativesMatches, diag>>
  /\ UNCHANGED <<clock, lastUse, lastFetch, wreq, wflight, issued>>

WJoin(w) ==
  /\ wpc[w] = "waiting"
  /\ flightInst[wflight[w]] # 0
  /\ wgot' = [wgot EXCEPT ![w] = flightInst[wflight[w]]]
  /\ wpc' = [wpc EXCEPT ![w] = "have"]
  /\ UNCHANGED <<pc, exit, err, cfg, file, file0, views, regionsType,
                 descFiles, regions_provider, loads, collectionMatcher, pairSrc, pairsLoaded,
                 pairs, kernel, matchCalls, writes, map_PutativesMatches, diag>>
  /\ UNCHANGED <<clock, lastUse, lastFetch, wreq, wflight, inflight,
                 flightInst, issued, resident>>

WRelease(w) ==
  /\ wpc[w] = "have"
  /\ wpc' = [wpc EXCEPT ![w] = "idle"]
  /\ wgot' = [wgot EXCEPT ![w] = 0]
  /\ wflight' = [wflight EXCEPT ![w] = 0]
  /\ wreq' = [wreq EXCEPT ![w] = 3]
  /\ UNCHANGED <<pc, exit, err, cfg, file, file0, views, regionsType,
                 descFiles, regions_provider, loads, collectionMatcher, pairSrc, pairsLoaded,
                 pairs, kernel, matchCalls, writes, map_PutativesMatches, diag>>
  /\ UNCHANGED <<clock, lastUse, lastFetch, inflight, flightInst, issued,
                 resident>>

WorkersNext ==
  \E w \in Workers : WBegin(w) \/ WFinish(w) \/ WJoin(w) \/ WRelease(w)

SpecWorkers == WorkersInit /\ [][WorkersNext]_vars

Pending(w) ==
  /\ wpc[w] \in {"loading", "waiting"}
  /\ flightInst[wflight[w]] = 0

\* C8: workers fetching the same non-resident view at the same time share one
\* load: at most one of them reads the file, the others are attached to that
\* load, no load reads the file twice, and every caller served by a load
\* observes the instance that load produced.
SingleFlight ==
  /\ \A w1, w2 \in Workers :
       (w1 # w2 /\ Pending(w1) /\ Pending(w2) /\ wreq[w1] = wreq[w2]) =>
         /\ wflight[w1] = wflight[w2]
         /\ ~(wpc[w1] = "loading" /\ wpc[w2] = "loading")
  /\ \A f \in Flights : issued[f] <= 1
  /\ \A w1, w2 \in Workers :
       (wpc[w1] = "have" /\ wpc[w2] = "have" /\ wflight[w1] # 0
          /\ wflight[w1] = wflight[w2]) => wgot[w1] = wgot[w2]
  /\ \A w \in Workers :
       (wpc[w] = "have" /\ wflight[w] # 0) =>
         (wgot[w] # 0 /\ wgot[w] = flightInst[wflight[w]])

SingleFlightWitness ==
  \E w1, w2 \in Workers :
    /\ w1 # w2
    /\ wpc[w1] = "have" /\ wpc[w2] = "have"
    /\ wreq[w1] = wreq[w2]
    /\ wflight[w1] # 0 /\ wflight[w1] = wflight[w2]
    /\ wgot[w1] = wgot[w2] /\ wgot[w1] # 0
    /\ issued[wflight[w1]] = 1

====
